---- MODULE Spec2Model ----
(***************************************************************************)
(* importanize/parser.py: the line grouper (find_imports_from_lines), the  *)
(* tokenizer (tokenize_import_lines) and the statement parser              *)
(* (parse_import_statement, parse_statements).                             *)
(*                                                                         *)
(* A Python string is a sequence of one-character strings; a Token is a    *)
(* string.  An optional value (an alias) is a sequence of at most one       *)
(* element, <<>> for Python None.  The interpreter is Python 3.7 or later, *)
(* where a StopIteration that escapes the body of a generator reaches the  *)
(* generator's caller as a RuntimeError (PEP 479).                         *)
(***************************************************************************)
EXTENDS Integers, Sequences, FiniteSets, TLC

\* no exception
None == "None"

\* an absent optional value
Absent == <<>>

----------------------------------------------------------------------------
(* str methods used by the parser *)

Max2(a, b) == IF a >= b THEN a ELSE b

\* s.startswith(p)
StartsWith(s, p) == Len(s) >= Len(p) /\ SubSeq(s, 1, Len(p)) = p

\* s.endswith(p)
EndsWith(s, p) == Len(s) >= Len(p) /\ SubSeq(s, Len(s) - Len(p) + 1, Len(s)) = p

\* s.find(sub, start): the lowest 0-based index >= start where sub occurs, or -1
Find(s, sub, start) ==
    LET hits == {i \in start..(Len(s) - Len(sub)) : SubSeq(s, i + 1, i + Len(sub)) = sub}
    IN  IF hits = {} THEN -1 ELSE CHOOSE i \in hits : \A j \in hits : i <= j

\* s.rfind(sub): the highest 0-based index where sub occurs, or -1
RFind(s, sub) ==
    LET hits == {i \in 0..(Len(s) - Len(sub)) : SubSeq(s, i + 1, i + Len(sub)) = sub}
    IN  IF hits = {} THEN -1 ELSE CHOOSE i \in hits : \A j \in hits : i >= j

\* sub in s
Contains(s, sub) == Find(s, sub, 0) >= 0

\* s.split(sep): the pieces of s between the occurrences of sep, left to right
RECURSIVE StrSplit(_, _)
StrSplit(s, sep) ==
    LET k == Find(s, sep, 0)
    IN  IF k < 0 THEN <<s>>
        ELSE <<SubSeq(s, 1, k)>> \o StrSplit(SubSeq(s, k + Len(sep) + 1, Len(s)), sep)

\* s.rsplit(sep, 1): s cut at the last occurrence of sep, or [s]
RSplit1(s, sep) ==
    LET k == RFind(s, sep)
    IN  IF k < 0 THEN <<s>>
        ELSE <<SubSeq(s, 1, k), SubSeq(s, k + Len(sep) + 1, Len(s))>>

\* list.insert(i, x) for 0 <= i
InsertAt(l, i, x) ==
    IF i >= Len(l) THEN Append(l, x)
    ELSE SubSeq(l, 1, i) \o <<x>> \o SubSeq(l, i + 1, Len(l))

----------------------------------------------------------------------------
(* the literals of the source *)

TripleQuote == <<"\"", "\"", "\"">>
FromSp      == <<"f", "r", "o", "m", " ">>
ImportSp    == <<"i", "m", "p", "o", "r", "t", " ">>
KwImport    == <<"i", "m", "p", "o", "r", "t">>
Comma       == <<",">>
Backslash   == <<"\\">>
Hash        == <<"#">>
Dot         == <<".">>
LParen      == <<"(">>
RParen      == <<")">>
AsSep       == <<" ", "a", "s", " ">>

----------------------------------------------------------------------------
(* Token and the collaborators of utils.py and statements.py *)

\* Token.is_comment
is_comment(token) == StartsWith(token, Hash)

\* utils.list_split(iterable, split): the runs between the items equal to
\* split; a run is yielded at each such item, and the last run only when it
\* is not empty
RECURSIVE ListSplitFrom(_, _, _, _)
ListSplitFrom(l, split, i, segment) ==
    IF i > Len(l) THEN (IF segment = <<>> THEN <<>> ELSE <<segment>>)
    ELSE IF l[i] = split THEN <<segment>> \o ListSplitFrom(l, split, i + 1, <<>>)
    ELSE ListSplitFrom(l, split, i + 1, Append(segment, l[i]))

list_split(l, split) == ListSplitFrom(l, split, 1, <<>>)

\* statements.DOTS.findall(stem)[0] for a stem that starts with a dot: the
\* longest run of leading dots, then the rest
RECURSIVE DotRun(_, _)
DotRun(s, i) == IF i <= Len(s) /\ s[i] = "." THEN DotRun(s, i + 1) ELSE i - 1

DOTS(stem) ==
    LET n == DotRun(stem, 1)
    IN  <<SubSeq(stem, 1, n), SubSeq(stem, n + 1, Len(stem))>>

\* statements.ImportLeaf(name, comments): the name, its alias (dropped when it
\* equals the name) and its comments
ImportLeaf(name, comments) ==
    LET parts   == IF Contains(name, AsSep) THEN StrSplit(name, AsSep) ELSE <<name>>
        nm      == parts[1]
        as_name == IF Len(parts) >= 2 /\ parts[2] # nm THEN <<parts[2]>> ELSE Absent
    IN  [name |-> nm, as_name |-> as_name, comments |-> comments]

\* statements.ImportStatement(line_numbers, stem, leafs, comments)
ImportStatement(line_numbers, stem, leafs, comments) ==
    [line_numbers |-> line_numbers, stem |-> stem, leafs |-> leafs,
     comments |-> comments]

----------------------------------------------------------------------------
(* tokenize_import_lines *)

\* filter(None, re.split(r' +|[\(\)]|([,\\])|(#.*)', line)): spaces and
\* parentheses separate words and are dropped, a comma and a backslash are
\* words of their own, and a # starts a word that runs to the end of the line
RECURSIVE WordsFrom(_, _, _)
WordsFrom(line, i, word) ==
    LET flush == IF word = <<>> THEN <<>> ELSE <<word>>
    IN  IF i > Len(line) THEN flush
        ELSE IF line[i] \in {" ", "(", ")"} THEN flush \o WordsFrom(line, i + 1, <<>>)
        ELSE IF line[i] \in {",", "\\"}
             THEN flush \o <<(<<line[i]>>)>> \o WordsFrom(line, i + 1, <<>>)
        ELSE IF line[i] = "#" THEN flush \o <<SubSeq(line, i, Len(line))>>
        ELSE WordsFrom(line, i + 1, Append(word, line[i]))

Words(line) == WordsFrom(line, 1, <<>>)

\* the loop of lines 115-125 from word i (0-based) on: a comment whose
\* predecessor is a comma goes in before that comma
RECURSIVE PlaceWords(_, _, _)
PlaceWords(words, i, toks) ==
    IF i >= Len(words) THEN toks
    ELSE LET token == words[i + 1]
         IN  IF is_comment(token) /\ toks # <<>> /\ toks[Max2(i - 1, 0) + 1] = Comma
             THEN PlaceWords(words, i + 1, InsertAt(toks, i - 1, token))
             ELSE PlaceWords(words, i + 1, Append(toks, token))

\* the _tokens of one physical line (lines 112-125)
LineTokens(line) == PlaceWords(Words(line), 0, <<>>)

\* tokens.extend(_tokens) over the lines of the group (lines 111-127)
RECURSIVE ExtendTokens(_, _)
ExtendTokens(import_lines, n) ==
    IF n = 0 THEN <<>>
    ELSE ExtendTokens(import_lines, n - 1) \o LineTokens(import_lines[n])

\* lines 131-134: each segment's first token is joined onto the last token
\* so far; an empty segment has no first token (IndexError)
RECURSIVE JoinSegments(_, _, _)
JoinSegments(segments, k, toks) ==
    IF k > Len(segments) THEN [err |-> None, tokens |-> toks]
    ELSE IF segments[k] = <<>> THEN [err |-> "IndexError", tokens |-> toks]
    ELSE JoinSegments(segments, k + 1,
            SubSeq(toks, 1, Len(toks) - 1)
            \o <<toks[Len(toks)] \o segments[k][1]>>
            \o Tail(segments[k]))

tokenize_import_lines(import_lines) ==
    JoinSegments(list_split(ExtendTokens(import_lines, Len(import_lines)), Backslash),
                 1, <<(<<>>)>>)

----------------------------------------------------------------------------
(* parse_import_statement *)

parse_import_statement(stem, line_numbers, comments) ==
    LET dots   == DOTS(stem)
        lsplit == RSplit1(dots[2], Dot)
        ssplit == RSplit1(stem, Dot)
        \* lines 159-176: the stem and the leafs before the alias check
        stem1  == IF StartsWith(stem, Dot)
                  THEN (IF Len(lsplit) = 2 THEN dots[1] \o lsplit[1] ELSE dots[1])
                  ELSE (IF Len(ssplit) = 2 /\ Contains(stem, AsSep) THEN ssplit[1] ELSE stem)
        leafs  == IF StartsWith(stem, Dot)
                  THEN <<ImportLeaf(IF Len(lsplit) = 2 THEN lsplit[2] ELSE dots[2], <<>>)>>
                  ELSE (IF Len(ssplit) = 2 /\ Contains(stem, AsSep)
                        THEN <<ImportLeaf(ssplit[2], <<>>)>> ELSE <<>>)
        \* lines 182-185
        parts  == StrSplit(stem1, AsSep)
    IN  IF Contains(stem1, AsSep) /\ leafs = <<>>
        THEN (IF Len(parts) # 2
              THEN [err |-> "ValueError", stmt |-> <<>>]
              ELSE [err |-> None,
                    stmt |-> <<ImportStatement(line_numbers,
                                   IF parts[1] = parts[2] THEN parts[1] ELSE stem1,
                                   leafs, comments)>>])
        ELSE [err |-> None,
              stmt |-> <<ImportStatement(line_numbers, stem1, leafs, comments)>>]

----------------------------------------------------------------------------
(* parse_statements, for one group of the iterable *)

\* filter(lambda i: i.is_comment, j)
CommentsOf(j) == SelectSeq(j, is_comment)

NotComments(j) == SelectSeq(j, LAMBDA t : ~is_comment(t))

\* not_comment(j) = next(filter(lambda i: not i.is_comment, j)) raises
\* StopIteration when j holds no such token
HasNotComment(j) == NotComments(j) # <<>>

not_comment(j) == NotComments(j)[1]

\* lines 214-221, one pass of the loop over the segments: the statement
\* yielded at line 216 for the segment _tokens; not_comment raises
\* StopIteration inside the generator on a segment without a stem, which
\* leaves it as a RuntimeError
ParseSegment(_tokens, line_numbers) ==
    IF ~HasNotComment(_tokens) THEN [err |-> "RuntimeError", stmt |-> <<>>]
    ELSE parse_import_statement(not_comment(_tokens), line_numbers, CommentsOf(_tokens))

\* lines 213-221 with the generator drained: the statements of the segments
\* from the k-th on, up to the first segment that raises
RECURSIVE ParseImportSegments(_, _, _, _)
ParseImportSegments(segments, k, line_numbers, out) ==
    IF k > Len(segments) THEN [err |-> None, stmts |-> out]
    ELSE LET r == ParseSegment(segments[k], line_numbers)
         IN  IF r.err # None THEN [err |-> r.err, stmts |-> out]
             ELSE ParseImportSegments(segments, k + 1, line_numbers, out \o r.stmt)

\* lines 228-232: the leafs of a from-import
RECURSIVE ParseLeafs(_, _, _)
ParseLeafs(_leafs, k, out) ==
    IF k > Len(_leafs) THEN [err |-> None, leafs |-> out]
    ELSE IF ~HasNotComment(_leafs[k]) THEN [err |-> "RuntimeError", leafs |-> out]
    ELSE ParseLeafs(_leafs, k + 1,
                    Append(out, ImportLeaf(not_comment(_leafs[k]), CommentsOf(_leafs[k]))))

\* ParseFrom with line 224 tolerating a missing import keyword: the tokens
\* are then taken as a stem without leafs
ParseFromLenient(tokens, line_numbers) ==
    LET parts == list_split(Tail(tokens), KwImport)
        lf    == ParseLeafs(list_split(parts[2], Comma), 1, <<>>)
    IN  IF Len(parts) = 1 /\ HasNotComment(parts[1])
        THEN [err |-> None,
              stmts |-> <<ImportStatement(line_numbers, not_comment(parts[1]), <<>>, <<>>)>>]
        ELSE IF Len(parts) # 2 THEN [err |-> "ValueError", stmts |-> <<>>]
        ELSE IF ~HasNotComment(parts[1]) THEN [err |-> "RuntimeError", stmts |-> <<>>]
        ELSE IF lf.err # None THEN [err |-> lf.err, stmts |-> <<>>]
        ELSE [err |-> None,
              stmts |-> <<ImportStatement(line_numbers, not_comment(parts[1]),
                                          lf.leafs, <<>>)>>]

\* lines 224-239: stem, _leafs = list_split(tokens[1:], 'import') needs
\* exactly two segments (ValueError otherwise); the one statement is yielded
\* after every leaf is built
ParseFrom(tokens, line_numbers) ==
    LET parts == list_split(Tail(tokens), KwImport)
        lf    == ParseLeafs(list_split(parts[2], Comma), 1, <<>>)
    IN  IF Len(parts) # 2 THEN [err |-> "ValueError", stmts |-> <<>>]
        ELSE IF ~HasNotComment(parts[1]) THEN [err |-> "RuntimeError", stmts |-> <<>>]
        ELSE IF lf.err # None THEN [err |-> lf.err, stmts |-> <<>>]
        ELSE [err |-> None,
              stmts |-> <<ImportStatement(line_numbers, not_comment(parts[1]),
                                          lf.leafs, <<>>)>>]

\* the body of the loop of parse_statements for one (import_lines,
\* line_numbers) with the generator drained: the statements it yields, one
\* request after the other, and the exception that ends it
ParseGroup(import_lines, line_numbers) ==
    LET t == tokenize_import_lines(import_lines)
    IN  IF t.err # None THEN [err |-> t.err, stmts |-> <<>>]
        ELSE IF t.tokens[1] = KwImport
             THEN ParseImportSegments(list_split(Tail(t.tokens), Comma), 1,
                                      line_numbers, <<>>)
             ELSE ParseFrom(t.tokens, line_numbers)

----------------------------------------------------------------------------
(* the source lines the inputs are drawn from *)

\* import a
LnImportA == <<"i", "m", "p", "o", "r", "t", " ", "a">>

\* from a import (b,
LnFromParenOpen == <<"f", "r", "o", "m", " ", "a", " ", "i", "m", "p", "o", "r", "t", " ", "(", "b", ",">>

\*     c)
LnParenClose == <<" ", " ", " ", " ", "c", ")">>

\* """
LnTripleQuote == <<"\"", "\"", "\"">>

\* from a import (b)
LnFromParens == <<"f", "r", "o", "m", " ", "a", " ", "i", "m", "p", "o", "r", "t", " ", "(", "b", ")">>

\* import a.\
LnImportBackslash == <<"i", "m", "p", "o", "r", "t", " ", "a", ".", "\\">>

\*     # n)
LnCommentParen == <<" ", " ", " ", " ", "#", " ", "n", ")">>

\* (an empty line)
LnBlank == <<>>

\* import os, sys  # comment
LnImportTwo == <<"i", "m", "p", "o", "r", "t", " ", "o", "s", ",", " ", "s", "y", "s", " ", " ", "#", " ", "c", "o", "m", "m", "e", "n", "t">>

\* from a import (b,  # keep
LnFromKeep == <<"f", "r", "o", "m", " ", "a", " ", "i", "m", "p", "o", "r", "t", " ", "(", "b", ",", " ", " ", "#", " ", "k", "e", "e", "p">>

\* from a.b import c as c, d as e
LnFromAlias == <<"f", "r", "o", "m", " ", "a", ".", "b", " ", "i", "m", "p", "o", "r", "t", " ", "c", " ", "a", "s", " ", "c", ",", " ", "d", " ", "a", "s", " ", "e">>

\* from a import b, \
LnFromCommaBackslash == <<"f", "r", "o", "m", " ", "a", " ", "i", "m", "p", "o", "r", "t", " ", "b", ",", " ", "\\">>

\* from a import (b \
LnFromParenBackslash == <<"f", "r", "o", "m", " ", "a", " ", "i", "m", "p", "o", "r", "t", " ", "(", "b", " ", "\\">>

\* , # k
LnCommaComment == <<",", " ", "#", " ", "k">>

\*     c
LnName == <<" ", " ", " ", " ", "c">>

\* from a
LnFromNoImport == <<"f", "r", "o", "m", " ", "a">>

\* import .a.b
LnImportRelative == <<"i", "m", "p", "o", "r", "t", " ", ".", "a", ".", "b">>

\* import a,, b
LnImportEmptyItem == <<"i", "m", "p", "o", "r", "t", " ", "a", ",", ",", " ", "b">>

\* import a.b \
LnImportContinued == <<"i", "m", "p", "o", "r", "t", " ", "a", ".", "b", " ", "\\">>

\* # x as y
LnCommentAs == <<"#", " ", "x", " ", "a", "s", " ", "y">>

GrouperLines ==
    {LnImportA, LnFromParenOpen, LnParenClose, LnTripleQuote, LnFromParens,
     LnImportBackslash, LnCommentParen, LnBlank}

StatementLines ==
    {LnImportTwo, LnFromKeep, LnParenClose, LnFromAlias, LnFromCommaBackslash,
     LnFromParenBackslash, LnCommaComment, LnName, LnFromNoImport, LnImportRelative,
     LnImportEmptyItem, LnTripleQuote, LnImportContinued, LnCommentAs}

\* lines that open and close block comments, next to statements of one line
\* and statements that continue
CommentLines ==
    {LnTripleQuote, LnImportA, LnFromParens, LnImportBackslash, LnFromParenOpen}

\* the longest input of Spec, of ParserSpec and of CommentSpec
MaxLines == 4

MaxStmtLines == 3

MaxCommentLines == 5

\* enumerate(lines, first): the line numbers of an input
FirstNumbers == {0, 1}

Inputs(catalogue, maxlen) ==
    UNION {{[i \in 1..n |-> <<first + i - 1, text[i]>>] :
                text \in [1..n -> catalogue], first \in FirstNumbers} : n \in 0..maxlen}

----------------------------------------------------------------------------
(* find_imports_from_lines, driven by parse_statements *)

VARIABLES
    input,          \* the (line_number, line) pairs the iterator yields
    pos,            \* how many of them next(iterator) has returned
    pc,             \* where the generator stands: "top" (line 61), "comment"
                    \* (71), "after" (77), "paren" (93), "bslash" (101),
                    \* "yield" (reaching 105), "held" (suspended at 105 while
                    \* parse_statements works on the group), "done"
                    \* (returned), "error" (raised)
    line_numbers,   \* the local line_numbers
    line_imports,   \* the local line_imports
    readAt,         \* for each line read, the pc of the next() that read it
    groups,         \* the groups yielded so far
    stmts,          \* the statements parse_statements has yielded so far
    pstatus,        \* parse_statements: "absent" (the generator is consumed
                    \* directly, as by list()), "running", "done", or the
                    \* exception it raised
    pfail,          \* the index of the group at which it raised, else 0
    ppc,            \* where parse_statements stands: "209" (asking the
                    \* iterable for a group), "210" (holding a group it has
                    \* not tokenized), "216" (suspended at the yield of an
                    \* import statement), "234" (suspended at the yield of a
                    \* from statement)
    seg             \* at 216, how many segments of the group are behind it

vars == <<input, pos, pc, line_numbers, line_imports, readAt, groups, stmts,
          pstatus, pfail, ppc, seg>>

Start(catalogue, maxlen, consumers) ==
    /\ input \in Inputs(catalogue, maxlen)
    /\ pos = 0
    /\ pc = "top"
    /\ line_numbers = <<>>
    /\ line_imports = <<>>
    /\ readAt = <<>>
    /\ groups = <<>>
    /\ stmts = <<>>
    /\ pstatus \in consumers
    /\ pfail = 0
    /\ ppc = "209"
    /\ seg = 0

\* find_imports_from_lines drained by its caller, or by parse_statements
Init == Start(GrouperLines, MaxLines, {"absent", "running"})

\* parse_statements(find_imports_from_lines(iterator))
ParserInit == Start(StatementLines, MaxStmtLines, {"running"})

\* as Init, on longer inputs of fewer lines
CommentInit == Start(CommentLines, MaxCommentLines, {"absent", "running"})

Exhausted == pos = Len(input)

NextNumber == input[pos + 1][1]

NextLine == input[pos + 1][2]

\* line 67: a triple quote with no second one later on the line
OpensComment(line) ==
    LET triple_quote == Find(line, TripleQuote, 0)
    IN  triple_quote >= 0 /\ Find(line, TripleQuote, triple_quote + 3) < 0

\* lines 82-83
IsImportLine(line) == StartsWith(line, FromSp) \/ StartsWith(line, ImportSp)

\* line 91
OpensParen(line) == Contains(line, LParen) /\ ~Contains(line, RParen)

\* the generator returns (lines 63, 73, 79): parse_statements ends with it
Return ==
    /\ pc' = "done"
    /\ pstatus' = IF pstatus = "running" THEN "done" ELSE pstatus
    /\ UNCHANGED <<input, pos, line_numbers, line_imports, readAt, groups, stmts, pfail, ppc, seg>>

\* next(iterator) raises StopIteration outside a try (lines 93, 101): the
\* generator raises RuntimeError, which passes through parse_statements
Raise ==
    /\ pc' = "error"
    /\ pstatus' = IF pstatus = "running" THEN "RuntimeError" ELSE pstatus
    /\ UNCHANGED <<input, pos, line_numbers, line_imports, readAt, groups, stmts, pfail, ppc, seg>>

Read(at) ==
    /\ pos' = pos + 1
    /\ readAt' = Append(readAt, at)

\* Consider with line 86 numbering the group by the reader's own count
ConsiderRenumbered(number, line) ==
    IF ~IsImportLine(line)
    THEN /\ pc' = "top"
         /\ UNCHANGED <<line_numbers, line_imports>>
    ELSE /\ line_numbers' = <<pos + 1>>
         /\ line_imports' = <<line>>
         /\ pc' = IF OpensParen(line) THEN "paren"
                  ELSE IF EndsWith(line, Backslash) THEN "bslash"
                  ELSE "yield"

\* lines 82-99 for the line just read at the top of the loop or after a
\* block comment
Consider(number, line) ==
    IF ~IsImportLine(line)
    THEN /\ pc' = "top"
         /\ UNCHANGED <<line_numbers, line_imports>>
    ELSE /\ line_numbers' = <<number>>
         /\ line_imports' = <<line>>
         /\ pc' = IF OpensParen(line) THEN "paren"
                  ELSE IF EndsWith(line, Backslash) THEN "bslash"
                  ELSE "yield"

\* lines 60-67, 82-99
ScanLine ==
    /\ pc = "top"
    /\ IF Exhausted THEN Return
       ELSE /\ Read("top")
            /\ IF OpensComment(NextLine)
               THEN /\ pc' = "comment"
                    /\ UNCHANGED <<line_numbers, line_imports>>
               ELSE Consider(NextNumber, NextLine)
            /\ UNCHANGED <<input, groups, stmts, pstatus, pfail, ppc, seg>>

\* lines 69-74
SkipComment ==
    /\ pc = "comment"
    /\ IF Exhausted THEN Return
       ELSE /\ Read("comment")
            /\ pc' = IF EndsWith(NextLine, TripleQuote) THEN "after" ELSE "comment"
            /\ UNCHANGED <<input, line_numbers, line_imports, groups, stmts, pstatus, pfail, ppc, seg>>

\* lines 76-79, 82-99
AfterComment ==
    /\ pc = "after"
    /\ IF Exhausted THEN Return
       ELSE /\ Read("after")
            /\ Consider(NextNumber, NextLine)
            /\ UNCHANGED <<input, groups, stmts, pstatus, pfail, ppc, seg>>

\* lines 92-95, 99
ParenLine ==
    /\ pc = "paren"
    /\ IF Exhausted THEN Raise
       ELSE /\ Read("paren")
            /\ line_numbers' = Append(line_numbers, NextNumber)
            /\ line_imports' = Append(line_imports, NextLine)
            /\ pc' = IF ~Contains(NextLine, RParen) THEN "paren"
                     ELSE IF EndsWith(NextLine, Backslash) THEN "bslash"
                     ELSE "yield"
            /\ UNCHANGED <<input, groups, stmts, pstatus, pfail, ppc, seg>>

\* lines 100-103
BackslashLine ==
    /\ pc = "bslash"
    /\ IF Exhausted THEN Raise
       ELSE /\ Read("bslash")
            /\ line_numbers' = Append(line_numbers, NextNumber)
            /\ line_imports' = Append(line_imports, NextLine)
            /\ pc' = IF EndsWith(NextLine, Backslash) THEN "bslash" ELSE "yield"
            /\ UNCHANGED <<input, groups, stmts, pstatus, pfail, ppc, seg>>

\* line 105: the group goes to the consumer and the generator stays
\* suspended there. parse_statements (line 209) asks for the next group only
\* when it is through with this one, and never again once it has raised; a
\* caller that drains the generator itself asks at once
YieldGroup ==
    /\ pc = "yield"
    /\ groups' = Append(groups, [lines |-> line_imports, numbers |-> line_numbers])
    /\ IF pstatus = "running"
       THEN pc' = "held" /\ ppc' = "210"
       ELSE pc' = "top" /\ UNCHANGED ppc
    /\ UNCHANGED <<input, pos, line_numbers, line_imports, readAt, stmts, pstatus,
                   pfail, seg>>

\* the group parse_statements is working on
import_lines == groups[Len(groups)].lines

\* the segments of the import statement in hand (line 213)
Segments == list_split(Tail(tokenize_import_lines(import_lines).tokens), Comma)

\* an exception leaves parse_statements at the group in hand; the generator
\* is not resumed
Fail(err) ==
    /\ pstatus' = err
    /\ pfail' = Len(groups)
    /\ UNCHANGED <<pc, stmts, ppc, seg>>

\* the loop over the segments is through (line 213) and line 209 asks the
\* iterable for the next group: the generator resumes after line 105
NextGroup ==
    /\ pc' = "top"
    /\ ppc' = "209"
    /\ seg' = 0
    /\ UNCHANGED <<stmts, pstatus, pfail>>

\* lines 213-216 from the k-th segment on: the statement of the segment is
\* yielded, or the segment raises, or there is no k-th segment
YieldSegment(k) ==
    IF k > Len(Segments) THEN NextGroup
    ELSE LET r == ParseSegment(Segments[k], line_numbers)
         IN  IF r.err # None THEN Fail(r.err)
             ELSE /\ stmts' = stmts \o r.stmt
                  /\ ppc' = "216"
                  /\ seg' = k
                  /\ UNCHANGED <<pc, pstatus, pfail>>

\* lines 209-216 and 224-234: parse_statements tokenizes the group it has
\* received and runs to its first yield for it, or raises
TakeGroup ==
    /\ pc = "held" /\ ppc = "210"
    /\ LET t == tokenize_import_lines(import_lines)
       IN  IF t.err # None THEN Fail(t.err)
           ELSE IF t.tokens[1] = KwImport THEN YieldSegment(1)
           ELSE LET r == ParseFrom(t.tokens, line_numbers)
                IN  IF r.err # None THEN Fail(r.err)
                    ELSE /\ stmts' = stmts \o r.stmts
                         /\ ppc' = "234"
                         /\ UNCHANGED <<pc, pstatus, pfail, seg>>
    /\ UNCHANGED <<input, pos, line_numbers, line_imports, readAt, groups>>

\* the consumer asks for the next statement while parse_statements is
\* suspended at line 216: the loop goes on with the next segment
ResumeImport ==
    /\ pc = "held" /\ ppc = "216"
    /\ YieldSegment(seg + 1)
    /\ UNCHANGED <<input, pos, line_numbers, line_imports, readAt, groups>>

\* the consumer asks for the next statement while parse_statements is
\* suspended at line 234: the from statement was the only one of the group
ResumeFrom ==
    /\ pc = "held" /\ ppc = "234"
    /\ NextGroup
    /\ UNCHANGED <<input, pos, line_numbers, line_imports, readAt, groups>>

Next ==
    \/ ScanLine
    \/ SkipComment
    \/ AfterComment
    \/ ParenLine
    \/ BackslashLine
    \/ YieldGroup
    \/ TakeGroup
    \/ ResumeImport
    \/ ResumeFrom

Spec == Init /\ [][Next]_vars

ParserSpec == ParserInit /\ [][Next]_vars

CommentSpec == CommentInit /\ [][Next]_vars

----------------------------------------------------------------------------
(* the vocabulary of the properties, stated on the input text itself *)

Terminated == pc \in {"done", "error"}

HasChar(line, c) == \E i \in 1..Len(line) : line[i] = c

BeginsWith(line, word) ==
    /\ Len(line) >= Len(word)
    /\ \A i \in 1..Len(word) : line[i] = word[i]

BeginsImportOrFrom(line) == BeginsWith(line, ImportSp) \/ BeginsWith(line, FromSp)

LastCharIs(line, c) == Len(line) >= 1 /\ line[Len(line)] = c

\* the positions at which the line holds three double quotes in a row
TripleQuoteAt(line) ==
    {i \in 1..(Len(line) - 2) : \A k \in 0..2 : line[i + k] = "\""}

\* a triple quote with no second, non-overlapping one after the first
UnterminatedTripleQuote(line) ==
    /\ TripleQuoteAt(line) # {}
    /\ \A i, j \in TripleQuoteAt(line) :
           (\A k \in TripleQuoteAt(line) : i <= k) => j < i + 3

EndsTripleQuote(line) == Len(line) - 2 \in TripleQuoteAt(line)

\* every ( of the line has a ) after it
NoUnclosedParen(line) ==
    \A i \in 1..Len(line) :
        line[i] = "(" => \E j \in (i + 1)..Len(line) : line[j] = ")"

\* the line holds a ) that is not inside a comment
ClosesParen(line) ==
    \E p \in 1..Len(line) :
        line[p] = ")" /\ \A q \in 1..(p - 1) : line[q] # "#"

\* the line at index i of the input was read as the start of a scan, not as
\* part of a block comment or of a statement's continuation
ScannedAt(i) == i <= pos /\ readAt[i] \in {"top", "after"}

\* the groups that hold the line numbered n
GroupsHolding(n) ==
    {g \in 1..Len(groups) : \E k \in 1..Len(groups[g].numbers) : groups[g].numbers[k] = n}

\* the group opened by the line at index i is still being collected
Collecting(i) ==
    /\ pc \in {"paren", "bslash", "yield"}
    /\ line_numbers # <<>>
    /\ line_numbers[1] = input[i][1]

\* the line numbers of all groups, in emission order
RECURSIVE AllNumbers(_)
AllNumbers(n) == IF n = 0 THEN <<>> ELSE AllNumbers(n - 1) \o groups[n].numbers

StrictlyIncreasing(q) == \A i, j \in 1..Len(q) : i < j => q[i] < q[j]

\* the statements yielded for group g
StmtsOf(g) == SelectSeq(stmts, LAMBDA st : st.line_numbers = groups[g].numbers)

\* parse_statements has taken group g from the generator
Reached(g) == g <= Len(groups) /\ pstatus # "absent"

\* parse_statements is through with group g: it has asked for the group
\* after it, or it has raised
Finished(g) ==
    /\ Reached(g)
    /\ g < Len(groups) \/ pc # "held" \/ pstatus # "running"

\* parse_statements has gone through group g without raising at it
ParsedOk(g) == Finished(g) /\ pfail # g

----------------------------------------------------------------------------
(* C7 *)

\* C7: the line numbers of the emitted groups, taken in emission order, are
\* strictly increasing; every group has as many numbers as lines; every
\* emitted (number, line) pair is a pair of the input; every statement carries
\* the whole number list of one group, and the statements follow the order of
\* their groups.
C7_SourceOrder ==
    /\ StrictlyIncreasing(AllNumbers(Len(groups)))
    /\ \A g \in 1..Len(groups) :
          /\ Len(groups[g].lines) = Len(groups[g].numbers)
          /\ Len(groups[g].lines) >= 1
          /\ \A k \in 1..Len(groups[g].numbers) :
                \E i \in 1..Len(input) :
                    input[i] = <<groups[g].numbers[k], groups[g].lines[k]>>
    /\ \A k \in 1..Len(stmts) :
          \E g \in 1..Len(groups) : stmts[k].line_numbers = groups[g].numbers
    /\ \A k, l \in 1..Len(stmts) :
          k < l => \A g, h \in 1..Len(groups) :
                      (/\ stmts[k].line_numbers = groups[g].numbers
                       /\ stmts[l].line_numbers = groups[h].numbers) => g <= h

\* two groups, one of several lines, and a statement from each, with line
\* numbers that are not the positions of the lines
C7_Witness ==
    /\ pc = "done"
    /\ Len(groups) >= 2
    /\ \E g \in 1..Len(groups) : Len(groups[g].numbers) >= 2
    /\ \E k, l \in 1..Len(stmts) : stmts[k].line_numbers # stmts[l].line_numbers
    /\ input[1][1] # 1

----------------------------------------------------------------------------
(* C9 *)

Min(S) == CHOOSE x \in S : \A y \in S : x <= y

\* the lines after index i that end in a triple quote
ClosersAfter(i) == {k \in (i + 1)..Len(input) : EndsTripleQuote(input[k][2])}

\* the last line of the block comment that the line at index i opens
RegionEnd(i) == IF ClosersAfter(i) = {} THEN Len(input) ELSE Min(ClosersAfter(i))

\* the line at index j is in no emitted group and in no group being collected
Discarded(j) ==
    /\ GroupsHolding(input[j][1]) = {}
    /\ ~(/\ pc \in {"paren", "bslash", "yield"}
          /\ \E k \in 1..Len(line_numbers) : line_numbers[k] = input[j][1])

\* C9: whenever a line that is not inside a block comment or a statement
\* group holds an unterminated triple quote, that line and every line up to
\* and including the first later line that ends in a triple quote are
\* discarded, and the scan for imports resumes with the line after it.
C9_SkipsEveryBlockComment ==
    \A i \in 1..Len(input) :
        (ScannedAt(i) /\ UnterminatedTripleQuote(input[i][2])) =>
            /\ \A j \in i..RegionEnd(i) : Discarded(j)
            /\ (ClosersAfter(i) # {} /\ RegionEnd(i) < pos) => ScannedAt(RegionEnd(i) + 1)

----------------------------------------------------------------------------
(* C1 *)

\* the statement that opens at index i closes its parenthesis at index k
ParenStatement(i, k) ==
    /\ ScannedAt(i)
    /\ ~UnterminatedTripleQuote(input[i][2])
    /\ BeginsImportOrFrom(input[i][2])
    /\ HasChar(input[i][2], "(")
    /\ k > i
    /\ ClosesParen(input[k][2])
    /\ \A j \in i..(k - 1) : ~ClosesParen(input[j][2])

\* C1: a statement that opens a parenthesis on its first line and closes it
\* on its N-th (N >= 2) comes out as one group of exactly those N lines and
\* their N numbers, whatever blank lines or comments lie in between.
C1_ParenGroup ==
    Terminated =>
        \A i, k \in 1..Len(input) :
            ParenStatement(i, k) =>
                \E g \in 1..Len(groups) :
                    groups[g] = [lines   |-> [j \in 1..(k - i + 1) |-> input[i + j - 1][2]],
                                 numbers |-> [j \in 1..(k - i + 1) |-> input[i + j - 1][1]]]

----------------------------------------------------------------------------
(* C5 *)

\* C5: when the input runs out inside a block comment, an open parenthesis
\* or a backslash continuation, the generator returns without an error and
\* emits nothing more: the groups are those completed before.
C5_SilentTruncation ==
    [][(Exhausted /\ pc \in {"comment", "paren", "bslash"}) =>
           (pc' = "done" /\ groups' = groups)]_vars

----------------------------------------------------------------------------
(* C8 *)

\* where a reader of the text stands after the first n lines of the input:
\* "scan" (the next line starts afresh), "comment" (inside a block comment:
\* an unterminated triple quote opens it, the first later line that ends in
\* a triple quote closes it), "paren" (inside the parentheses of an import
\* statement), "bslash" (after the trailing backslash of an import statement)
RECURSIVE TextPlace(_)
TextPlace(n) ==
    IF n = 0 THEN "scan"
    ELSE LET before == TextPlace(n - 1)
             line   == input[n][2]
         IN  CASE before = "scan" ->
                      IF UnterminatedTripleQuote(line) THEN "comment"
                      ELSE IF ~BeginsImportOrFrom(line) THEN "scan"
                      ELSE IF ~NoUnclosedParen(line) THEN "paren"
                      ELSE IF LastCharIs(line, "\\") THEN "bslash"
                      ELSE "scan"
               [] before = "comment" ->
                      IF EndsTripleQuote(line) THEN "scan" ELSE "comment"
               [] before = "paren" ->
                      IF ~ClosesParen(line) THEN "paren"
                      ELSE IF LastCharIs(line, "\\") THEN "bslash"
                      ELSE "scan"
               [] before = "bslash" ->
                      IF LastCharIs(line, "\\") THEN "bslash" ELSE "scan"

\* a well-formed single-line statement, by the text alone: the line at index
\* i is outside any block comment and continues no earlier statement, opens
\* no block comment, starts with "import " or "from ", has no unclosed
\* parenthesis and no trailing backslash
SingleLineStatement(i) ==
    /\ TextPlace(i - 1) = "scan"
    /\ ~UnterminatedTripleQuote(input[i][2])
    /\ BeginsImportOrFrom(input[i][2])
    /\ NoUnclosedParen(input[i][2])
    /\ ~LastCharIs(input[i][2], "\\")

\* C8: every well-formed single-line statement is emitted as exactly one
\* group, which holds that one line and its one line number (once the
\* generator has read the line and passed the yield that follows).
C8_SingleLineGroup ==
    \A i \in 1..Len(input) :
        (SingleLineStatement(i) /\ i <= pos /\ ~Collecting(i)) =>
            /\ Cardinality(GroupsHolding(input[i][1])) = 1
            /\ \A g \in GroupsHolding(input[i][1]) :
                  groups[g] = [lines |-> <<input[i][2]>>, numbers |-> <<input[i][1]>>]

----------------------------------------------------------------------------
(* the vocabulary of the parser's properties *)

\* the token sequence of group g
TokensOf(g) == tokenize_import_lines(groups[g].lines)

Tokenized(g) == TokensOf(g).err = None

ImportForm(g) == Tokenized(g) /\ TokensOf(g).tokens[1] = KwImport

FromForm(g) == Tokenized(g) /\ BeginsWith(groups[g].lines[1], FromSp)

HasToken(tokens, t) == \E k \in 1..Len(tokens) : tokens[k] = t

\* the comma-separated segments after the first token of an import group
ImportSegments(g) == list_split(Tail(TokensOf(g).tokens), Comma)

\* the comma-separated items after the import keyword of a from group
FromItems(g) == list_split(list_split(Tail(TokensOf(g).tokens), KwImport)[2], Comma)

\* the tokens of a segment that are not comments, and those that are
WordsOf(segment) == SelectSeq(segment, LAMBDA t : t[1] # "#")

RemarksOf(segment) == SelectSeq(segment, LAMBDA t : t[1] = "#")

----------------------------------------------------------------------------
(* C10 *)

\* the stem of a relative token: its leading dots and what lies before its
\* last dot, when that dot is not one of the leading ones
RelativeStem(token) ==
    LET lead == CHOOSE n \in 1..Len(token) :
                    /\ \A i \in 1..n : token[i] = "."
                    /\ n < Len(token) => token[n + 1] # "."
        last == CHOOSE n \in 1..Len(token) :
                    /\ token[n] = "."
                    /\ \A i \in (n + 1)..Len(token) : token[i] # "."
    IN  IF last > lead THEN SubSeq(token, 1, last - 1) ELSE SubSeq(token, 1, lead)

\* C10: once parse_statements is through with an import group, it has not
\* raised at it and has yielded one statement per comma-separated segment,
\* in order; the comments of each are the comment tokens of its segment, and
\* its stem is the first non-comment token of the segment (for a token that
\* starts with a dot: the token's leading dots followed by what precedes its
\* last dot, the stem of the relative shorthand).
C10_OneStatementPerSegment ==
    \A g \in 1..Len(groups) :
        (Finished(g) /\ ImportForm(g)) =>
            /\ pfail # g
            /\ Len(StmtsOf(g)) = Len(ImportSegments(g))
            /\ \A k \in 1..Len(ImportSegments(g)) :
                  /\ WordsOf(ImportSegments(g)[k]) # <<>>
                  /\ LET token == WordsOf(ImportSegments(g)[k])[1]
                     IN  StmtsOf(g)[k].stem =
                             IF token[1] = "." THEN RelativeStem(token) ELSE token
                  /\ StmtsOf(g)[k].comments = RemarksOf(ImportSegments(g)[k])

----------------------------------------------------------------------------
(* C6 *)

\* group g starts with "from " and no token of it is the import keyword
FromWithoutImport(g) == FromForm(g) /\ ~HasToken(TokensOf(g).tokens, KwImport)

IsPrefix(p, q) == Len(p) <= Len(q) /\ SubSeq(q, 1, Len(p)) = p

\* C6: at a group that starts with "from " and has no import keyword among
\* its tokens, parse_statements yields no statement and is through with the
\* group only by raising; the statements yielded before stay as they were,
\* and nothing is yielded after it has raised.
C6_HardFailure ==
    /\ [](\A g \in 1..Len(groups) :
            (Reached(g) /\ FromWithoutImport(g)) =>
                /\ StmtsOf(g) = <<>>
                /\ Finished(g) =>
                      /\ pfail = g
                      /\ pstatus \in {"ValueError", "IndexError", "RuntimeError"})
    /\ [][IsPrefix(stmts, stmts') /\ (pfail # 0 => stmts' = stmts)]_vars

\* parse_statements has raised at a from group without import after it had
\* yielded statements for earlier groups
C6_Witness ==
    /\ pfail > 1
    /\ FromWithoutImport(pfail)
    /\ pstatus = "ValueError"
    /\ Len(stmts) >= 1

----------------------------------------------------------------------------
(* C2 *)

KwAs == <<"a", "s">>

\* C2: every item of a from-import that is written "x as y" gives a leaf
\* named x, with alias y when y differs from x and without alias when y is x.
C2_AliasKept ==
    \A g \in 1..Len(groups) :
        (ParsedOk(g) /\ FromForm(g)) =>
            \A k \in 1..Len(FromItems(g)) :
                LET item == WordsOf(FromItems(g)[k])
                IN  (Len(item) = 3 /\ item[2] = KwAs) =>
                        /\ Len(StmtsOf(g)) = 1
                        /\ Len(StmtsOf(g)[1].leafs) = Len(FromItems(g))
                        /\ StmtsOf(g)[1].leafs[k].name = item[1]
                        /\ StmtsOf(g)[1].leafs[k].as_name =
                              IF item[3] # item[1] THEN <<item[3]>> ELSE <<>>

----------------------------------------------------------------------------
(* C3 *)

\* the words of the first n lines of a group as they are written, the
\* backslashes left out
RECURSIVE WrittenWords(_, _)
WrittenWords(lines, n) ==
    IF n = 0 THEN <<>>
    ELSE WrittenWords(lines, n - 1)
         \o SelectSeq(Words(lines[n]), LAMBDA w : w # Backslash)

\* the item that ends where the word sequence ends: the non-comment words
\* after the last comma or import keyword
LastItem(words) ==
    LET cuts  == {q \in 1..Len(words) : words[q] = Comma \/ words[q] = KwImport}
        start == IF cuts = {} THEN 0 ELSE CHOOSE q \in cuts : \A r \in cuts : r <= q
    IN  WordsOf(SubSeq(words, start + 1, Len(words)))

\* word p of the line is a comma and word p + 1 a comment
CommaThenComment(line, p) ==
    /\ p + 1 <= Len(Words(line))
    /\ Words(line)[p] = Comma
    /\ Words(line)[p + 1][1] = "#"

\* the words of the line with words p and p + 1 exchanged
Exchanged(line, p) ==
    [q \in 1..Len(Words(line)) |->
        IF q = p THEN Words(line)[p + 1]
        ELSE IF q = p + 1 THEN Words(line)[p]
        ELSE Words(line)[q]]

\* C3: on a line where a comment directly follows a comma, the tokenizer puts
\* the comment right before that comma and leaves the other tokens as they
\* are; after parsing, the comment is on the leaf written before the comma
\* and not on the leaf after it.
C3_CommentBeforeComma ==
    \A g \in 1..Len(groups) :
        \A n \in 1..Len(groups[g].lines) :
            \A p \in 1..Len(Words(groups[g].lines[n])) :
                CommaThenComment(groups[g].lines[n], p) =>
                    /\ LineTokens(groups[g].lines[n]) = Exchanged(groups[g].lines[n], p)
                    /\ LET before  == LastItem(WrittenWords(groups[g].lines, n - 1)
                                           \o SubSeq(Words(groups[g].lines[n]), 1, p - 1))
                           comment == Words(groups[g].lines[n])[p + 1]
                       IN  (ParsedOk(g) /\ FromForm(g) /\ before # <<>>) =>
                               /\ Len(StmtsOf(g)) = 1
                               /\ \E q \in 1..Len(StmtsOf(g)[1].leafs) :
                                     /\ StmtsOf(g)[1].leafs[q].name = before[1]
                                     /\ HasToken(StmtsOf(g)[1].leafs[q].comments, comment)
                                     /\ q < Len(StmtsOf(g)[1].leafs) =>
                                            ~HasToken(StmtsOf(g)[1].leafs[q + 1].comments,
                                                      comment)

----------------------------------------------------------------------------
(* C4 *)

\* the group is one statement continued by trailing backslashes
BackslashGroup(lines) ==
    /\ Len(lines) >= 2
    /\ \A n \in 1..(Len(lines) - 1) : LastCharIs(lines[n], "\\")
    /\ ~LastCharIs(lines[Len(lines)], "\\")
    /\ \A n \in 1..Len(lines) :
          \A c \in {"(", ")", "#", "\""} : ~HasChar(lines[n], c)

\* the same statement on one line: the backslashes and line breaks removed
RECURSIVE OnOneLine(_, _)
OnOneLine(lines, n) ==
    IF n = 0 THEN <<>>
    ELSE OnOneLine(lines, n - 1)
         \o (IF LastCharIs(lines[n], "\\")
             THEN SubSeq(lines[n], 1, Len(lines[n]) - 1) ELSE lines[n])

\* every comma-separated item is one name, or "x as y"
PlainItems(items) ==
    \A k \in 1..Len(items) :
        \/ Len(WordsOf(items[k])) = 1
        \/ Len(WordsOf(items[k])) = 3 /\ WordsOf(items[k])[2] = KwAs

\* an accepted statement on one line: plain import, or from ... import ...,
\* with comma-separated items
Accepted(line) ==
    LET t == tokenize_import_lines(<<line>>).tokens
    IN  /\ ParseGroup(<<line>>, <<0>>).err = None
        /\ IF t[1] = KwImport THEN PlainItems(list_split(Tail(t), Comma))
           ELSE PlainItems(list_split(list_split(Tail(t), KwImport)[2], Comma))

\* the stem and the ordered leaf names of each statement
Shape(statements) ==
    [k \in 1..Len(statements) |->
        <<statements[k].stem,
          [q \in 1..Len(statements[k].leafs) |-> statements[k].leafs[q].name]>>]

\* C4: an accepted statement split over several lines by trailing
\* backslashes parses to the same stem and the same ordered leaf names as
\* the statement written on a single line.
C4_BackslashRoundTrip ==
    \A g \in 1..Len(groups) :
        (/\ Finished(g)
         /\ BackslashGroup(groups[g].lines)
         /\ Accepted(OnOneLine(groups[g].lines, Len(groups[g].lines)))) =>
            LET joined == ParseGroup(<<OnOneLine(groups[g].lines, Len(groups[g].lines))>>,
                                     groups[g].numbers)
            IN  pfail # g /\ Shape(StmtsOf(g)) = Shape(joined.stmts)

====
